---- MODULE Spec2Model ----
(***************************************************************************)
(* frntnd-communicator: the Connection state machine, the request          *)
(* dispatch pipeline of Connection#request and the Request registry.       *)
(***************************************************************************)
EXTENDS Integers, Sequences, FiniteSets, TLC

(***************************************************************************)
(* Bounds of the exploration.                                              *)
(***************************************************************************)
MaxConnectCalls == 3
MaxDisconnectCalls == 1
MaxRequestCalls == 1
MaxDispatches == 1
MaxConstructions == 2
MaxAdapterCalls == 1

MaxConcurrentRequests == 3

MaxLifecycleOps == 4

MaxSubscriptions == 2

(***************************************************************************)
(* enums/CONNECTION_STATE                                                  *)
(***************************************************************************)
DISCONNECTED == 0
CONNECTING == 1
CONNECTED == 2

CONNECTION_STATE == {DISCONNECTED, CONNECTING, CONNECTED}

(***************************************************************************)
(* JavaScript values.  A payload is a tagged value so that a hook that     *)
(* transforms its argument yields a value different from the argument.     *)
(***************************************************************************)
Undefined == "undefined"

NonStrings == {"undefined", "null", "#42"}

TypeofString(v) == v \notin NonStrings

Truthy(v) == v \notin {"undefined", "null", ""}

UndefinedPayload == [tag |-> "undefined", v |-> ""]

Raw(x) == [tag |-> "raw", v |-> x]

Payloads == {Raw("P1"), Raw("P2")}

Errors == {Raw("E1"), Raw("E2")}

Pending == [kind |-> "pending", value |-> UndefinedPayload]

Resolved(x) == [kind |-> "resolved", value |-> x]

Rejected(x) == [kind |-> "rejected", value |-> x]

(***************************************************************************)
(* Names used by the explored scenarios.                                   *)
(***************************************************************************)
AdapterNames == {"XHR"}

ConnNames == {"c1"}

ReqNames == {"r1", "r2"}

BaseUrl(c) == IF c = "c1" THEN "http://h:1" ELSE "http://h:2"

abstractMethods == {"connect", "disconnect", "request", "upload", "subscribe", "unsubscribe"}

VARIABLES
  adapters,         \* singletons/adapters: name -> Adapter
  connections,      \* singletons/connections: name -> Connection (with its _state)
  requests,         \* singletons/requests: name -> Request
  nextId,           \* identity of the next object a constructor allocates
  listeners,        \* per Connection: the EventEmitter's listeners per event
  emitted,          \* per Connection: number of emits per event
  connectCalls,     \* the Adapter.connect invocations, in call order
  connectPromises,  \* the promises returned by Connection#connect, in call order
  disconnectCalls,  \* the Adapter.disconnect invocations, in call order
  disconnectPromises, \* the promises returned by Connection#disconnect, in call order
  requestCalls,     \* the Adapter.request/upload invocations with their promises
  result,           \* synchronous result of the last operation
  config,           \* singletons/config: defaultAdapter and defaultConnection
  adapterCalls,     \* calls of an Adapter's public operations made on the Adapter itself
  exposed,          \* per owner (Connection or ClassWithConnection): the object execute
                    \* functions are stored on, by shortName
  instances         \* the ClassWithConnection instances

vars == <<adapters, connections, requests, nextId, listeners, emitted,
          connectCalls, connectPromises, disconnectCalls, disconnectPromises,
          requestCalls, result, config, adapterCalls, exposed, instances>>

registryVars == <<adapters, connections, requests, nextId>>

connectVars == <<listeners, emitted, connectCalls, connectPromises, disconnectCalls,
                 disconnectPromises>>

facadeVars == <<config, adapterCalls>>

classVars == <<exposed, instances>>

NoResult == [kind |-> "none", ref |-> 0, error |-> "", arg |-> 0]

Returned(id, arg) == [kind |-> "returned", ref |-> id, error |-> "", arg |-> arg]

Thrown(e, arg) == [kind |-> "thrown", ref |-> 0, error |-> e, arg |-> arg]

(***************************************************************************)
(* Adapter: a capability the options omit is replaced by resolveFn, which  *)
(* resolves; a supplied capability settles as the implementation decides.  *)
(***************************************************************************)
CanFail_Always(adapterName, method) == TRUE

CanFail(adapterName, method) == method \in adapters[adapterName].caps

(***************************************************************************)
(* Connection#state and the three getters.                                 *)
(***************************************************************************)
state(c) == connections[c]._state

connected(c) == state(c) = CONNECTED

connecting(c) == state(c) = CONNECTING

disconnected(c) == state(c) = DISCONNECTED

SetState(c, s) == [connections EXCEPT ![c]._state = s]

(***************************************************************************)
(* Connection#on and Connection#trigger.  The only listeners the library   *)
(* itself registers are the resolve/reject functions of the promises made  *)
(* by a coalesced connect(); a listener is named by its promise.  Emitting *)
(* settles every listening promise that is still pending.                  *)
(***************************************************************************)
on(ls, c, event, k) == [ls EXCEPT ![c][event] = Append(@, k)]

ListeningOn(c, event) == {listeners[c][event][j] : j \in DOMAIN listeners[c][event]}

trigger(promises, c, event, how) ==
  [k \in DOMAIN promises |->
     IF k \in ListeningOn(c, event) /\ promises[k].outcome = "pending"
       THEN [promises[k] EXCEPT !.outcome = how]
       ELSE promises[k]]

(***************************************************************************)
(* Connection#_establishNewConnection, the synchronous part: the state     *)
(* becomes CONNECTING and Adapter.connect is called with options.url.      *)
(***************************************************************************)
EstablishNewConnection_KeepsState(c) ==
  /\ connections' = connections
  /\ connectCalls' = Append(connectCalls,
        [conn |-> c, url |-> connections[c].url, status |-> "pending"])
  /\ connectPromises' = Append(connectPromises,
        [conn |-> c, how |-> "established", attempt |-> Len(connectCalls) + 1,
         outcome |-> "pending"])
  /\ UNCHANGED listeners

EstablishNewConnection(c) ==
  /\ connections' = SetState(c, CONNECTING)
  /\ connectCalls' = Append(connectCalls,
        [conn |-> c, url |-> connections[c].url, status |-> "pending"])
  /\ connectPromises' = Append(connectPromises,
        [conn |-> c, how |-> "established", attempt |-> Len(connectCalls) + 1,
         outcome |-> "pending"])
  /\ UNCHANGED listeners

(***************************************************************************)
(* Connection#connect                                                      *)
(***************************************************************************)
LatestAttempt(c) ==
  LET S == {i \in DOMAIN connectCalls : connectCalls[i].conn = c}
  IN IF S = {} THEN 0 ELSE CHOOSE i \in S : \A j \in S : j <= i

ConnectWhenConnected_Redials(c) ==
  /\ connected(c)
  /\ EstablishNewConnection(c)

ConnectWhenConnected(c) ==
  /\ connected(c)
  /\ connectPromises' = Append(connectPromises,
        [conn |-> c, how |-> "immediate", attempt |-> 0, outcome |-> "resolved"])
  /\ UNCHANGED <<connections, connectCalls, listeners>>

ConnectWhenConnecting_NoListeners(c) ==
  /\ ~connected(c)
  /\ connecting(c)
  /\ connectPromises' = Append(connectPromises,
        [conn |-> c, how |-> "joined", attempt |-> LatestAttempt(c),
         outcome |-> "pending"])
  /\ UNCHANGED <<connections, connectCalls, listeners>>

ConnectWhenConnecting(c) ==
  /\ ~connected(c)
  /\ connecting(c)
  /\ connectPromises' = Append(connectPromises,
        [conn |-> c, how |-> "joined", attempt |-> LatestAttempt(c),
         outcome |-> "pending"])
  /\ listeners' = on(on(listeners, c, "connect", Len(connectPromises) + 1),
                     c, "connectionFail", Len(connectPromises) + 1)
  /\ UNCHANGED <<connections, connectCalls>>

ConnectWhenDisconnected(c) ==
  /\ ~connected(c)
  /\ ~connecting(c)
  /\ EstablishNewConnection(c)

Connect(c) ==
  /\ c \in DOMAIN connections
  /\ Len(connectPromises) < MaxConnectCalls
  /\ \/ ConnectWhenConnected(c)
     \/ ConnectWhenConnecting(c)
     \/ ConnectWhenDisconnected(c)
  /\ result' = NoResult
  /\ UNCHANGED <<adapters, requests, nextId, emitted, disconnectCalls, disconnectPromises,
                 requestCalls>>
  /\ UNCHANGED facadeVars
  /\ UNCHANGED classVars

(***************************************************************************)
(* Connection#_establishNewConnection, the two handlers passed to then().  *)
(***************************************************************************)
SettleEstablished(promises, i, how) ==
  [k \in DOMAIN promises |->
     IF promises[k].how = "established" /\ promises[k].attempt = i
       THEN [promises[k] EXCEPT !.outcome = how]
       ELSE promises[k]]

ConnectSucceeds(i) ==
  LET c == connectCalls[i].conn IN
  /\ connectCalls[i].status = "pending"
  /\ connectCalls' = [connectCalls EXCEPT ![i].status = "ok"]
  /\ connections' = SetState(c, CONNECTED)
  /\ emitted' = [emitted EXCEPT ![c]["connect"] = @ + 1]
  /\ connectPromises' =
       SettleEstablished(trigger(connectPromises, c, "connect", "resolved"), i, "resolved")
  /\ result' = NoResult
  /\ UNCHANGED <<adapters, requests, nextId, listeners, disconnectCalls, disconnectPromises,
                 requestCalls>>
  /\ UNCHANGED facadeVars
  /\ UNCHANGED classVars

ConnectFails_Resolves(i) ==
  LET c == connectCalls[i].conn IN
  /\ connectCalls[i].status = "pending"
  /\ CanFail(connections[c].adapter, "connect")
  /\ connectCalls' = [connectCalls EXCEPT ![i].status = "fail"]
  /\ connections' = SetState(c, DISCONNECTED)
  /\ emitted' = [emitted EXCEPT ![c]["connectionFail"] = @ + 1]
  /\ connectPromises' =
       SettleEstablished(trigger(connectPromises, c, "connectionFail", "rejected"), i, "resolved")
  /\ result' = NoResult
  /\ UNCHANGED <<adapters, requests, nextId, listeners, disconnectCalls, disconnectPromises,
                 requestCalls>>
  /\ UNCHANGED facadeVars
  /\ UNCHANGED classVars

ConnectFails(i) ==
  LET c == connectCalls[i].conn IN
  /\ connectCalls[i].status = "pending"
  /\ CanFail(connections[c].adapter, "connect")
  /\ connectCalls' = [connectCalls EXCEPT ![i].status = "fail"]
  /\ connections' = SetState(c, DISCONNECTED)
  /\ emitted' = [emitted EXCEPT ![c]["connectionFail"] = @ + 1]
  /\ connectPromises' =
       SettleEstablished(trigger(connectPromises, c, "connectionFail", "rejected"), i, "rejected")
  /\ result' = NoResult
  /\ UNCHANGED <<adapters, requests, nextId, listeners, disconnectCalls, disconnectPromises,
                 requestCalls>>
  /\ UNCHANGED facadeVars
  /\ UNCHANGED classVars

(***************************************************************************)
(* Connection#disconnect: Adapter.disconnect is called without arguments;  *)
(* only a fulfilment handler is attached.                                  *)
(***************************************************************************)
Disconnect(c) ==
  /\ c \in DOMAIN connections
  /\ Len(disconnectPromises) < MaxDisconnectCalls
  /\ disconnectCalls' = Append(disconnectCalls,
        [conn |-> c, url |-> Undefined, status |-> "pending"])
  /\ disconnectPromises' = Append(disconnectPromises,
        [conn |-> c, call |-> Len(disconnectCalls) + 1, outcome |-> "pending"])
  /\ result' = NoResult
  /\ UNCHANGED <<registryVars, listeners, emitted, connectCalls, connectPromises, requestCalls>>
  /\ UNCHANGED facadeVars
  /\ UNCHANGED classVars

(***************************************************************************)
(* Connection#disconnect, the handler passed to then(): it runs when       *)
(* Adapter.disconnect is fulfilled; a rejection passes through to the      *)
(* promise disconnect() returned.                                          *)
(***************************************************************************)
SettleDisconnect(promises, i, how) ==
  [k \in DOMAIN promises |->
     IF promises[k].call = i THEN [promises[k] EXCEPT !.outcome = how] ELSE promises[k]]

DisconnectSucceeds_KeepsState(i) ==
  /\ disconnectCalls[i].status = "pending"
  /\ disconnectCalls' = [disconnectCalls EXCEPT ![i].status = "ok"]
  /\ disconnectPromises' = SettleDisconnect(disconnectPromises, i, "resolved")
  /\ result' = NoResult
  /\ UNCHANGED <<registryVars, listeners, emitted, connectCalls, connectPromises, requestCalls>>
  /\ UNCHANGED facadeVars
  /\ UNCHANGED classVars

DisconnectSucceeds(i) ==
  /\ disconnectCalls[i].status = "pending"
  /\ disconnectCalls' = [disconnectCalls EXCEPT ![i].status = "ok"]
  /\ connections' = SetState(disconnectCalls[i].conn, DISCONNECTED)
  /\ disconnectPromises' = SettleDisconnect(disconnectPromises, i, "resolved")
  /\ result' = NoResult
  /\ UNCHANGED <<adapters, requests, nextId, listeners, emitted, connectCalls,
                 connectPromises, requestCalls>>
  /\ UNCHANGED facadeVars
  /\ UNCHANGED classVars

DisconnectFails(i) ==
  /\ disconnectCalls[i].status = "pending"
  /\ CanFail(connections[disconnectCalls[i].conn].adapter, "disconnect")
  /\ disconnectCalls' = [disconnectCalls EXCEPT ![i].status = "fail"]
  /\ disconnectPromises' = SettleDisconnect(disconnectPromises, i, "rejected")
  /\ result' = NoResult
  /\ UNCHANGED <<registryVars, listeners, emitted, connectCalls, connectPromises, requestCalls>>
  /\ UNCHANGED facadeVars
  /\ UNCHANGED classVars

(***************************************************************************)
(* enums/REQUEST_METHODS and String#toUpperCase on the method keywords.    *)
(***************************************************************************)
REQUEST_METHODS == {"POST", "PUT", "GET", "DELETE"}

toUpperCase(s) ==
  CASE s = "get" -> "GET"
    [] s = "post" -> "POST"
    [] s = "put" -> "PUT"
    [] s = "delete" -> "DELETE"
    [] s = "asd" -> "ASD"
    [] OTHER -> s

(***************************************************************************)
(* The connection attribute of a payload or of a Request: absent, a name,  *)
(* a Connection instance, or a value of another type.                      *)
(***************************************************************************)
NoConnection == [t |-> "undefined", v |-> ""]

ByName(n) == [t |-> "string", v |-> n]

Instance(c) == [t |-> "Connection", v |-> c]

(***************************************************************************)
(* Request.validateImplementation: "" when the payload is accepted, else   *)
(* the reason of the Error that is thrown.                                 *)
(***************************************************************************)
validateConnection(options) ==
  IF options.connection.t = "undefined" THEN ""
  ELSE IF options.connection.t = "Connection" THEN ""
  ELSE IF options.connection.t = "string"
    THEN IF options.connection.v \in DOMAIN connections THEN "" ELSE "connection was not found"
  ELSE "connection was not specified as a string or an instance of Connection"

validateImplementation(options) ==
  IF ~TypeofString(options.name) THEN "name wasn't specified (as a string)"
  ELSE IF options.name \in DOMAIN requests THEN ""
  ELSE IF ~TypeofString(options.method) THEN "method wasn't specified (as a string)"
  ELSE IF toUpperCase(options.method) \notin REQUEST_METHODS THEN "not a valid method"
  ELSE IF ~TypeofString(options.route) THEN "route wasn't specified (as a string)"
  ELSE validateConnection(options)

(***************************************************************************)
(* frntnd-route-util: a route template is a list of path segments, a       *)
(* segment that starts with a colon is a placeholder filled from the data. *)
(***************************************************************************)
RouteSegments(route) ==
  CASE route = "/user/:id" -> <<"user", ":id">>
    [] route = "/ping" -> <<"ping">>
    [] OTHER -> <<route>>

fillRouteWithPathVariables(route, data) ==
  LET segs == RouteSegments(route)
  IN [i \in DOMAIN segs |-> IF segs[i] = ":id" THEN data.id ELSE segs[i]]

concatenateBaseUrlAndUrl(base, filled) == <<base>> \o filled

(***************************************************************************)
(* Connection#_prepareRequest                                              *)
(***************************************************************************)
prepareRequest(c, request, data) ==
  [url |-> concatenateBaseUrlAndUrl(connections[c].url,
                                    fillRouteWithPathVariables(request.route, data)),
   method |-> request.method,
   data |-> data,
   request |-> request]

(***************************************************************************)
(* The resolve/reject hooks a blueprint can carry.  passResolve and        *)
(* passReject are Request#resolve and Request#reject; recover and          *)
(* wrapReject are user hooks that return a promise resolved, respectively  *)
(* rejected, with a value derived from their argument.                     *)
(***************************************************************************)
typeofFunction(h) == h \in {"passResolve", "passReject", "recover", "wrapReject"}

ApplyHook(h, x) ==
  CASE h = "passResolve" -> Resolved(x)
    [] h = "passReject" -> Rejected(x)
    [] h = "recover" -> Resolved([tag |-> "recovered", v |-> x.v])
    [] h = "wrapReject" -> Rejected([tag |-> "wrapped", v |-> x.v])

(***************************************************************************)
(* Connection#request: handleResolve and handleReject.                     *)
(***************************************************************************)
handleResolve_IgnoresHook(request, data) == Resolved(data)

handleResolve(request, data) ==
  IF typeofFunction(request.resolve) THEN ApplyHook(request.resolve, data) ELSE Resolved(data)

Invoke(request, hook, invoked) ==
  IF typeofFunction(request[hook]) THEN Append(invoked, hook) ELSE invoked

handleReject_IgnoresHook(request, data) == Rejected(data)

handleReject(request, data) ==
  IF typeofFunction(request.reject) THEN ApplyHook(request.reject, data)
  ELSE Resolved(UndefinedPayload)

(***************************************************************************)
(* Connection#request                                                      *)
(***************************************************************************)
RequestThrows(c, request, data) ==
  /\ validateImplementation(request) # ""
  /\ result' = Thrown(validateImplementation(request), request)
  /\ UNCHANGED <<registryVars, connectVars, requestCalls>>
  /\ UNCHANGED facadeVars
  /\ UNCHANGED classVars

RequestDispatches_WaitsForConnected(c, request, data) ==
  /\ connected(c)
  /\ validateImplementation(request) = ""
  /\ requestCalls' = Append(requestCalls,
        [conn |-> c,
         via |-> IF request.upload THEN "upload" ELSE "request",
         wire |-> prepareRequest(c, request, data),
         status |-> "pending",
         settled |-> UndefinedPayload,
         outcome |-> Pending,
         invoked |-> <<>>])
  /\ result' = NoResult
  /\ UNCHANGED <<registryVars, connectVars>>
  /\ UNCHANGED facadeVars
  /\ UNCHANGED classVars

RequestDispatches(c, request, data) ==
  /\ validateImplementation(request) = ""
  /\ requestCalls' = Append(requestCalls,
        [conn |-> c,
         via |-> IF request.upload THEN "upload" ELSE "request",
         wire |-> prepareRequest(c, request, data),
         status |-> "pending",
         settled |-> UndefinedPayload,
         outcome |-> Pending,
         invoked |-> <<>>])
  /\ result' = NoResult
  /\ UNCHANGED <<registryVars, connectVars>>
  /\ UNCHANGED facadeVars
  /\ UNCHANGED classVars

Request(c, request, data) ==
  /\ c \in DOMAIN connections
  /\ \/ RequestThrows(c, request, data)
     \/ RequestDispatches(c, request, data)

(***************************************************************************)
(* Settlement of Adapter.request / Adapter.upload and the then() handlers. *)
(***************************************************************************)
AdapterPayloads(i) ==
  IF CanFail(connections[requestCalls[i].conn].adapter, requestCalls[i].via)
    THEN Payloads ELSE {UndefinedPayload}

RequestSucceeds_SettlesAll(i, p) ==
  /\ requestCalls[i].status = "pending"
  /\ p \in AdapterPayloads(i)
  /\ requestCalls' = [j \in DOMAIN requestCalls |->
        IF requestCalls[j].status = "pending"
          THEN [requestCalls[j] EXCEPT
                  !.status = "ok", !.settled = p,
                  !.outcome = handleResolve(requestCalls[j].wire.request, p),
                  !.invoked = Invoke(requestCalls[j].wire.request, "resolve", @)]
          ELSE requestCalls[j]]
  /\ result' = NoResult
  /\ UNCHANGED <<registryVars, connectVars>>
  /\ UNCHANGED facadeVars
  /\ UNCHANGED classVars

RequestSucceeds_ThenCatch(i, p) ==
  LET request == requestCalls[i].wire.request
      handled == handleResolve(request, p) IN
  /\ requestCalls[i].status = "pending"
  /\ p \in AdapterPayloads(i)
  /\ requestCalls' = [requestCalls EXCEPT
        ![i].status = "ok", ![i].settled = p,
        ![i].outcome = IF handled.kind = "rejected"
                         THEN handleReject(request, handled.value) ELSE handled,
        ![i].invoked = IF handled.kind = "rejected"
                         THEN Invoke(request, "reject", Invoke(request, "resolve", @))
                         ELSE Invoke(request, "resolve", @)]
  /\ result' = NoResult
  /\ UNCHANGED <<registryVars, connectVars>>
  /\ UNCHANGED facadeVars
  /\ UNCHANGED classVars

RequestSucceeds(i, p) ==
  /\ requestCalls[i].status = "pending"
  /\ p \in AdapterPayloads(i)
  /\ requestCalls' = [requestCalls EXCEPT
        ![i].status = "ok", ![i].settled = p,
        ![i].outcome = handleResolve(requestCalls[i].wire.request, p),
        ![i].invoked = Invoke(requestCalls[i].wire.request, "resolve", @)]
  /\ result' = NoResult
  /\ UNCHANGED <<registryVars, connectVars>>
  /\ UNCHANGED facadeVars
  /\ UNCHANGED classVars

RequestFails(i, e) ==
  /\ requestCalls[i].status = "pending"
  /\ CanFail(connections[requestCalls[i].conn].adapter, requestCalls[i].via)
  /\ requestCalls' = [requestCalls EXCEPT
        ![i].status = "fail", ![i].settled = e,
        ![i].outcome = handleReject(requestCalls[i].wire.request, e),
        ![i].invoked = Invoke(requestCalls[i].wire.request, "reject", @)]
  /\ result' = NoResult
  /\ UNCHANGED <<registryVars, connectVars>>
  /\ UNCHANGED facadeVars
  /\ UNCHANGED classVars

(***************************************************************************)
(* Request: the payload of a constructor call (or an ad-hoc blueprint      *)
(* handed to Connection#request) and the instance the constructor builds.  *)
(* ref is the identity of the object when it is a Request instance, and 0  *)
(* for an object literal.                                                  *)
(***************************************************************************)
Options(name, method, route, connection, resolve, reject, upload) ==
  [ref |-> 0, method |-> method, connection |-> connection, name |-> name,
   route |-> route, resolve |-> resolve, reject |-> reject, upload |-> upload,
   shortName |-> name]

WithoutShortName(options) == [options EXCEPT !.shortName = Undefined]

(***************************************************************************)
(* Request#constructor, the fields set when the instance registered        *)
(* itself.  The instance has no name and no upload field of its own.       *)
(***************************************************************************)
ConstructedRequest(id, options) ==
  [id |-> id,
   method |-> toUpperCase(options.method),
   options |-> options,
   connection |-> IF options.connection.t = "string" /\ options.connection.v \in DOMAIN connections
                    THEN Instance(options.connection.v)
                    ELSE NoConnection,
   route |-> options.route,
   resolve |-> IF Truthy(options.resolve) THEN options.resolve ELSE "passResolve",
   reject |-> IF Truthy(options.reject) THEN options.reject ELSE "passReject"]

(***************************************************************************)
(* Request#_register                                                       *)
(***************************************************************************)
register_Overwrites(id, options) ==
  [n \in DOMAIN requests \cup {options.name} |->
     IF n = options.name THEN ConstructedRequest(id, options) ELSE requests[n]]

register(id, options) ==
  IF options.name \in DOMAIN requests
    THEN requests
    ELSE [n \in DOMAIN requests \cup {options.name} |->
            IF n = options.name THEN ConstructedRequest(id, options) ELSE requests[n]]

(***************************************************************************)
(* new Request(options): validation, registration, and the object the      *)
(* constructor returns.                                                    *)
(***************************************************************************)
NewRequestThrows(options) ==
  /\ validateImplementation(options) # ""
  /\ result' = Thrown(validateImplementation(options), options)
  /\ UNCHANGED requests

NewRequestReturns(options) ==
  /\ validateImplementation(options) = ""
  /\ requests' = register(nextId, options)
  /\ result' = Returned(requests'[options.name].id, options)

NewRequest(options) ==
  /\ nextId <= 3 + MaxConstructions
  /\ nextId' = nextId + 1
  /\ \/ NewRequestThrows(options)
     \/ NewRequestReturns(options)
  /\ UNCHANGED <<adapters, connections, connectVars, requestCalls>>
  /\ UNCHANGED facadeVars
  /\ UNCHANGED classVars

(***************************************************************************)
(* Request#execute: the instance itself is the blueprint handed to         *)
(* Connection#request.                                                     *)
(***************************************************************************)
AsBlueprint(r) ==
  [ref |-> requests[r].id, method |-> requests[r].method,
   connection |-> requests[r].connection, name |-> Undefined,
   route |-> requests[r].route, resolve |-> requests[r].resolve,
   reject |-> requests[r].reject, upload |-> FALSE, shortName |-> Undefined]

ExecuteConnection_DefaultsToRegistered(r, override) ==
  IF override.t # "undefined" THEN override
  ELSE IF requests[r].connection.t = "Connection" THEN requests[r].connection
  ELSE Instance("c1")

ExecuteConnection(r, override) ==
  IF override.t = "undefined" THEN requests[r].connection ELSE override

ExecuteThrows(r, data, override) ==
  /\ ExecuteConnection(r, override).t # "Connection"
  /\ result' = Thrown("no Connection provided", AsBlueprint(r))
  /\ UNCHANGED <<registryVars, connectVars, requestCalls>>
  /\ UNCHANGED facadeVars
  /\ UNCHANGED classVars

ExecuteRequests(r, data, override) ==
  /\ ExecuteConnection(r, override).t = "Connection"
  /\ Request(ExecuteConnection(r, override).v, AsBlueprint(r), data)

Execute(r, data, override) ==
  /\ r \in DOMAIN requests
  /\ \/ ExecuteThrows(r, data, override)
     \/ ExecuteRequests(r, data, override)

(***************************************************************************)
(* A registry with one more binding.                                       *)
(***************************************************************************)
Put(reg, name, obj) ==
  [n \in DOMAIN reg \cup {name} |-> IF n = name THEN obj ELSE reg[n]]

Nullish(v) == v \in {"undefined", "null"}

(***************************************************************************)
(* Adapter: the payload of a registration is a name and the capabilities   *)
(* it implements; the constructor keeps the supplied capabilities and      *)
(* replaces the others by resolveFn.                                       *)
(***************************************************************************)
AdapterOptions(name, caps) == [caps |-> caps, name |-> name]

ConstructedAdapter(id, options) ==
  [id |-> id, caps |-> options.caps, name |-> options.name]

(***************************************************************************)
(* Adapter.get and Adapter.validateImplementation of the Adapter whose     *)
(* constructor registers the instance.                                     *)
(***************************************************************************)
AdapterGet(options) == Truthy(options.name) /\ options.name \in DOMAIN adapters

AdapterValidateImplementation(options) ==
  IF ~Truthy(options.name) THEN "AdapterMissingPropertyException: no name provided"
  ELSE IF ~TypeofString(options.name)
    THEN "AdapterInvalidPropertyException: no should be a string"
  ELSE ""

(***************************************************************************)
(* new Adapter(options): an Adapter registered under the name is returned  *)
(* as it is; otherwise the payload is validated and the new instance       *)
(* registers itself.                                                       *)
(***************************************************************************)
NewAdapterReturnsExisting(options) ==
  /\ AdapterGet(options)
  /\ result' = Returned(adapters[options.name].id, options)
  /\ UNCHANGED adapters

NewAdapterThrows(options) ==
  /\ ~AdapterGet(options)
  /\ AdapterValidateImplementation(options) # ""
  /\ result' = Thrown(AdapterValidateImplementation(options), options)
  /\ UNCHANGED adapters

NewAdapterRegisters(options) ==
  /\ ~AdapterGet(options)
  /\ AdapterValidateImplementation(options) = ""
  /\ adapters' = Put(adapters, options.name, ConstructedAdapter(nextId, options))
  /\ result' = Returned(nextId, options)

ConstructAdapter(options) ==
  /\ nextId <= 3 + MaxConstructions
  /\ nextId' = nextId + 1
  /\ \/ NewAdapterReturnsExisting(options)
     \/ NewAdapterThrows(options)
     \/ NewAdapterRegisters(options)

NewAdapter(options) ==
  /\ ConstructAdapter(options)
  /\ UNCHANGED <<connections, requests, connectVars, requestCalls, facadeVars, classVars>>

(***************************************************************************)
(* Adapter.register, the static registration of the Adapter whose          *)
(* constructor does not register: a bound name is refused.                 *)
(***************************************************************************)
AdapterRegister(options) ==
  /\ nextId <= 3 + MaxConstructions
  /\ nextId' = nextId + 1
  /\ IF options.name \in DOMAIN adapters
       THEN /\ result' = Thrown("Error: adapter with this name already exists", options)
            /\ UNCHANGED adapters
       ELSE /\ adapters' = Put(adapters, options.name, ConstructedAdapter(nextId, options))
            /\ result' = Returned(nextId, options)
  /\ UNCHANGED <<connections, requests, connectVars, requestCalls, facadeVars, classVars>>

(***************************************************************************)
(* Communicator.registerAdapter: the first payload handed in names the     *)
(* default adapter, then the Adapter is constructed.                       *)
(***************************************************************************)
registerAdapter(options) ==
  /\ config' = IF Truthy(config.defaultAdapter) THEN config
               ELSE [config EXCEPT !.defaultAdapter = options.name]
  /\ ConstructAdapter(options)
  /\ UNCHANGED <<connections, requests, connectVars, requestCalls, adapterCalls, classVars>>

(***************************************************************************)
(* The public operations of an Adapter, called on the Adapter itself.  An  *)
(* omitted capability is resolveFn, whose promise is resolved, without a   *)
(* payload, when the call returns; a supplied capability returns a promise *)
(* that the implementation settles.                                        *)
(***************************************************************************)
AdapterCall(a, method) ==
  /\ a \in DOMAIN adapters
  /\ method \in abstractMethods
  /\ Len(adapterCalls) < MaxAdapterCalls
  /\ adapterCalls' = Append(adapterCalls,
       IF CanFail(a, method)
         THEN [adapter |-> a, method |-> method, args |-> <<>>, status |-> "pending",
               settled |-> UndefinedPayload, outcome |-> Pending]
         ELSE [adapter |-> a, method |-> method, args |-> <<>>, status |-> "ok",
               settled |-> UndefinedPayload, outcome |-> Resolved(UndefinedPayload)])
  /\ result' = NoResult
  /\ UNCHANGED <<registryVars, connectVars, requestCalls, config, classVars>>

(***************************************************************************)
(* Adapter#subscribe(event) and Adapter#unsubscribe(event) hand their one  *)
(* parameter to the capability; Connection#subscribe(event, cb) and        *)
(* Connection#unsubscribe(event) call them on the Connection's Adapter.    *)
(***************************************************************************)
CapabilityCall(a, method, args) ==
  IF CanFail(a, method)
    THEN [adapter |-> a, method |-> method, args |-> args, status |-> "pending",
          settled |-> UndefinedPayload, outcome |-> Pending]
    ELSE [adapter |-> a, method |-> method, args |-> args, status |-> "ok",
          settled |-> UndefinedPayload, outcome |-> Resolved(UndefinedPayload)]

AdapterSubscribe(a, passed) == CapabilityCall(a, "subscribe", SubSeq(passed, 1, 1))

AdapterUnsubscribe(a, passed) == CapabilityCall(a, "unsubscribe", SubSeq(passed, 1, 1))

Subscribe(c, event, cb) ==
  /\ c \in DOMAIN connections
  /\ adapterCalls' = Append(adapterCalls, AdapterSubscribe(connections[c].adapter, <<event, cb>>))
  /\ result' = NoResult
  /\ UNCHANGED <<registryVars, connectVars, requestCalls, config, classVars>>

Unsubscribe(c, event) ==
  /\ c \in DOMAIN connections
  /\ adapterCalls' = Append(adapterCalls, AdapterUnsubscribe(connections[c].adapter, <<event>>))
  /\ result' = NoResult
  /\ UNCHANGED <<registryVars, connectVars, requestCalls, config, classVars>>

AdapterCallSucceeds(i, p) ==
  /\ adapterCalls[i].status = "pending"
  /\ adapterCalls' = [adapterCalls EXCEPT
        ![i].status = "ok", ![i].settled = p, ![i].outcome = Resolved(p)]
  /\ result' = NoResult
  /\ UNCHANGED <<registryVars, connectVars, requestCalls, config, classVars>>

AdapterCallFails(i, e) ==
  /\ adapterCalls[i].status = "pending"
  /\ adapterCalls' = [adapterCalls EXCEPT
        ![i].status = "fail", ![i].settled = e, ![i].outcome = Rejected(e)]
  /\ result' = NoResult
  /\ UNCHANGED <<registryVars, connectVars, requestCalls, config, classVars>>

(***************************************************************************)
(* Connection: the payload of a construction.  adapters and requests are   *)
(* the inline components of the options, in iteration order.               *)
(***************************************************************************)
ConnectionOptions(name, adapter, url, inlineAdapters, inlineRequests) ==
  [adapters |-> inlineAdapters, requests |-> inlineRequests,
   url |-> url, adapter |-> adapter, name |-> name]

(***************************************************************************)
(* Connection.validateImplementation against the adapter registry as it is *)
(* when the validation runs.                                               *)
(***************************************************************************)
ConnectionValidateImplementation_SkipsRegistry(options, registered) ==
  IF Nullish(options.name) THEN "ConnectionMissingPropertyException: no name provided"
  ELSE IF ~TypeofString(options.name)
    THEN "ConnectionInvalidPropertyException: name is not a string"
  ELSE IF Nullish(options.adapter)
    THEN "ConnectionMissingPropertyException: no adapter provided"
  ELSE IF ~TypeofString(options.adapter)
    THEN "ConnectionInvalidPropertyException: adapter is not a string"
  ELSE IF Nullish(options.url) THEN "ConnectionMissingPropertyException: no url provided"
  ELSE IF ~TypeofString(options.url)
    THEN "ConnectionInvalidPropertyException: url is not a string"
  ELSE ""

ConnectionValidateImplementation(options, registered) ==
  IF Nullish(options.name) THEN "ConnectionMissingPropertyException: no name provided"
  ELSE IF ~TypeofString(options.name)
    THEN "ConnectionInvalidPropertyException: name is not a string"
  ELSE IF Nullish(options.adapter)
    THEN "ConnectionMissingPropertyException: no adapter provided"
  ELSE IF ~TypeofString(options.adapter)
    THEN "ConnectionInvalidPropertyException: adapter is not a string"
  ELSE IF options.adapter \notin DOMAIN registered
    THEN "ConnectionInvalidPropertyException: adapter isn't a registered adapter"
  ELSE IF Nullish(options.url) THEN "ConnectionMissingPropertyException: no url provided"
  ELSE IF ~TypeofString(options.url)
    THEN "ConnectionInvalidPropertyException: url is not a string"
  ELSE ""

(***************************************************************************)
(* Connection.registerAdapters: every inline adapter payload is handed to  *)
(* new Adapter, which registers the ones whose name is not bound yet.      *)
(***************************************************************************)
RECURSIVE registerAdapters(_, _, _)
registerAdapters(reg, inline, id) ==
  IF inline = <<>> THEN reg
  ELSE LET o == Head(inline) IN
       registerAdapters(IF o.name \in DOMAIN reg THEN reg
                        ELSE Put(reg, o.name, ConstructedAdapter(id, o)),
                        Tail(inline), id + 1)

(***************************************************************************)
(* Connection#_registerComponentsInOptions, the first statement of the     *)
(* constructor: the inline adapters are registered, then the inline        *)
(* requests are walked, which reads this.options before it is assigned.    *)
(***************************************************************************)
registerComponentsInOptions(options) ==
  registerAdapters(adapters, options.adapters, nextId + 1)

ConstructedConnection(id, options) ==
  [id |-> id, _state |-> DISCONNECTED, url |-> options.url, adapter |-> options.adapter,
   name |-> options.name]

(***************************************************************************)
(* new Connection(options)                                                 *)
(***************************************************************************)
NewConnectionTypeError(options) ==
  /\ options.requests # <<>>
  /\ result' = Thrown("TypeError: Cannot read property 'name' of undefined", options)
  /\ UNCHANGED <<connections, listeners, emitted, exposed>>

NewConnectionReturnsExisting_Replaces(options) ==
  /\ options.requests = <<>>
  /\ options.name \in DOMAIN connections
  /\ connections' = [connections EXCEPT ![options.name] = ConstructedConnection(nextId, options)]
  /\ result' = Returned(nextId, options)
  /\ UNCHANGED <<listeners, emitted, exposed>>

NewConnectionReturnsExisting(options) ==
  /\ options.requests = <<>>
  /\ options.name \in DOMAIN connections
  /\ result' = Returned(connections[options.name].id, options)
  /\ UNCHANGED <<connections, listeners, emitted, exposed>>

NewConnectionThrows(options) ==
  /\ options.requests = <<>>
  /\ options.name \notin DOMAIN connections
  /\ ConnectionValidateImplementation(options, registerComponentsInOptions(options)) # ""
  /\ result' = Thrown(
       ConnectionValidateImplementation(options, registerComponentsInOptions(options)), options)
  /\ UNCHANGED <<connections, listeners, emitted, exposed>>

NewConnectionRegisters(options) ==
  /\ options.requests = <<>>
  /\ options.name \notin DOMAIN connections
  /\ ConnectionValidateImplementation(options, registerComponentsInOptions(options)) = ""
  /\ connections' = Put(connections, options.name, ConstructedConnection(nextId, options))
  /\ listeners' = Put(listeners, options.name, [e \in {"connect", "connectionFail"} |-> <<>>])
  /\ emitted' = Put(emitted, options.name, [e \in {"connect", "connectionFail"} |-> 0])
  /\ exposed' = Put(exposed, options.name, [on |-> "requests", map |-> <<>>])
  /\ result' = Returned(nextId, options)

ConstructConnection(options) ==
  /\ nextId <= 3 + MaxConstructions
  /\ nextId' = nextId + 1 + Len(options.adapters)
  /\ adapters' = registerComponentsInOptions(options)
  /\ \/ NewConnectionTypeError(options)
     \/ NewConnectionReturnsExisting(options)
     \/ NewConnectionThrows(options)
     \/ NewConnectionRegisters(options)
  /\ UNCHANGED <<requests, connectCalls, connectPromises, disconnectCalls, disconnectPromises,
                 requestCalls, adapterCalls, instances>>

NewConnection(options) ==
  /\ ConstructConnection(options)
  /\ UNCHANGED config

(***************************************************************************)
(* Communicator.registerConnection: the first payload handed in names the  *)
(* default connection, then the Connection is constructed.                 *)
(***************************************************************************)
registerConnection(options) ==
  /\ config' = IF Truthy(config.defaultConnection) THEN config
               ELSE [config EXCEPT !.defaultConnection = options.name]
  /\ ConstructConnection(options)

(***************************************************************************)
(* Communicator#connect and Communicator#disconnect: the argument, or the  *)
(* default connection when there is none, is looked up when it is a string *)
(* and used as it is otherwise.                                            *)
(***************************************************************************)
NameArgument(arg) ==
  IF arg.t # "undefined" THEN arg
  ELSE IF TypeofString(config.defaultConnection) THEN ByName(config.defaultConnection)
  ELSE NoConnection

CommunicatorConnection_FallsBack(arg) ==
  LET name == NameArgument(arg) IN
  IF name.t = "string"
    THEN IF name.v \in DOMAIN connections THEN Instance(name.v) ELSE Instance("c1")
    ELSE IF name.t = "Connection" THEN name ELSE Instance("c1")

CommunicatorConnection(arg) ==
  LET name == NameArgument(arg) IN
  IF name.t = "string"
    THEN IF name.v \in DOMAIN connections THEN Instance(name.v) ELSE NoConnection
    ELSE name

CommunicatorConnect(arg) ==
  \/ /\ CommunicatorConnection(arg).t = "Connection"
     /\ Connect(CommunicatorConnection(arg).v)
  \/ /\ CommunicatorConnection(arg).t # "Connection"
     /\ result' = Thrown("CommunicatorInvalidPropertyException: connection not found", arg)
     /\ UNCHANGED <<registryVars, connectVars, requestCalls, facadeVars, classVars>>

CommunicatorDisconnect(arg) ==
  \/ /\ CommunicatorConnection(arg).t = "Connection"
     /\ Disconnect(CommunicatorConnection(arg).v)
  \/ /\ CommunicatorConnection(arg).t # "Connection"
     /\ result' = Thrown(
          IF NameArgument(arg).t = "string"
            THEN "CommunicatorInvalidPropertyException: connection not found"
            ELSE "CommunicatorInvalidPropertyException: no connection provided", arg)
     /\ UNCHANGED <<registryVars, connectVars, requestCalls, facadeVars, classVars>>

(***************************************************************************)
(* registerRequest of a Connection and of a ClassWithConnection.  The      *)
(* argument is taken for a Request instance when its constructor has the   *)
(* static _type 'Request'; the Request class of Request.js defines no      *)
(* _type, so the test fails for every argument and the argument is handed  *)
(* to new Request (for a ClassWithConnection through                       *)
(* communicator.registerRequest, which does the same).  The execute        *)
(* function of a Request is named by the id of the Request.                *)
(***************************************************************************)
RequestType == Undefined

isRequestInstance(arg) == arg.t = "Request" /\ RequestType = "Request"

PayloadArgument(options) == [t |-> "object", v |-> options]

InstanceArgument(r) == [t |-> "Request", v |-> r]

ExecuteOf(id) == [fn |-> "execute", of |-> id, _request |-> id]

AsOptions(arg) == IF arg.t = "Request" THEN AsBlueprint(arg.v) ELSE arg.v

RegisterRequestThrows(owner, arg) ==
  /\ ~isRequestInstance(arg)
  /\ validateImplementation(AsOptions(arg)) # ""
  /\ result' = Thrown(validateImplementation(AsOptions(arg)), arg)
  /\ UNCHANGED <<requests, exposed>>

RegisterRequestExposes(owner, arg) ==
  /\ ~isRequestInstance(arg)
  /\ validateImplementation(AsOptions(arg)) = ""
  /\ requests' = register(nextId, AsOptions(arg))
  /\ LET _request == requests'[AsOptions(arg).name] IN
       /\ exposed' = [exposed EXCEPT ![owner].map =
                        Put(@, _request.options.shortName, ExecuteOf(_request.id))]
       /\ result' = Returned(_request.id, ExecuteOf(_request.id))

RegisterRequestExposesInstance(owner, arg) ==
  /\ isRequestInstance(arg)
  /\ exposed' = [exposed EXCEPT ![owner].map =
                   Put(@, requests[arg.v].options.shortName, ExecuteOf(requests[arg.v].id))]
  /\ result' = Returned(requests[arg.v].id, ExecuteOf(requests[arg.v].id))
  /\ UNCHANGED requests

registerRequest(owner, arg) ==
  /\ owner \in DOMAIN exposed
  /\ arg.t = "Request" => arg.v \in DOMAIN requests
  /\ nextId <= 3 + MaxConstructions
  /\ nextId' = nextId + 1
  /\ \/ RegisterRequestThrows(owner, arg)
     \/ RegisterRequestExposes(owner, arg)
     \/ RegisterRequestExposesInstance(owner, arg)
  /\ UNCHANGED <<adapters, connections, connectVars, requestCalls, facadeVars, instances>>

(***************************************************************************)
(* ClassWithConnection.  The constructor validates options.connection,     *)
(* creates the object Requests are exposed on, registers initialize as a   *)
(* listener of the instance's own 'connect' event and calls connect().     *)
(* connect() goes through communicator.connect to Connection#connect and   *)
(* attaches a handler to the promise it gets; the handler sets connection  *)
(* on the instance and emits 'connect' on the instance.  A handler is      *)
(* named by the promise of Connection#connect it is attached to.           *)
(***************************************************************************)
ClassOptions(connection, exposeRequestsOn) ==
  [connection |-> connection, exposeRequestsOn |-> exposeRequestsOn]

ClassValidateImplementation(options) ==
  IF ~TypeofString(options.connection) THEN "no connection specified"
  ELSE IF options.connection \notin DOMAIN connections THEN "connection doesn't exist"
  ELSE ""

ClassConnected(instance) ==
  /\ instance.connection.t = "Connection"
  /\ connected(instance.connection.v)

ConnectionConnect(c) ==
  /\ Len(connectPromises) < MaxConnectCalls
  /\ \/ ConnectWhenConnected(c)
     \/ ConnectWhenConnecting(c)
     \/ ConnectWhenDisconnected(c)
  /\ UNCHANGED <<adapters, requests, nextId, emitted, disconnectCalls, disconnectPromises,
                 requestCalls>>
  /\ UNCHANGED facadeVars

NewClassWithConnectionThrows(k, options, initialize) ==
  /\ ClassValidateImplementation(options) # ""
  /\ result' = Thrown(ClassValidateImplementation(options), options)
  /\ UNCHANGED <<registryVars, connectVars, requestCalls, facadeVars, classVars>>

NewClassWithConnectionConnects(k, options, initialize) ==
  /\ ClassValidateImplementation(options) = ""
  /\ exposed' = Put(exposed, k,
        [on |-> IF Truthy(options.exposeRequestsOn) THEN options.exposeRequestsOn
                ELSE "requests",
         map |-> <<>>])
  /\ instances' = Put(instances, k,
        [options |-> options, connection |-> NoConnection, initialize |-> initialize,
         initialized |-> 0, handlers |-> <<Len(connectPromises) + 1>>, handled |-> {}])
  /\ ConnectionConnect(options.connection)
  /\ result' = Returned(0, options)

NewClassWithConnection(k, options, initialize) ==
  /\ k \notin DOMAIN instances
  /\ \/ NewClassWithConnectionThrows(k, options, initialize)
     \/ NewClassWithConnectionConnects(k, options, initialize)

ClassConnectWhenConnected(k) ==
  /\ ClassConnected(instances[k])
  /\ result' = NoResult
  /\ UNCHANGED <<registryVars, connectVars, requestCalls, facadeVars, classVars>>

ClassConnectThroughCommunicator(k) ==
  /\ ~ClassConnected(instances[k])
  /\ instances' = [instances EXCEPT ![k].handlers = Append(@, Len(connectPromises) + 1)]
  /\ ConnectionConnect(instances[k].options.connection)
  /\ result' = NoResult
  /\ UNCHANGED exposed

ClassConnect(k) ==
  /\ k \in DOMAIN instances
  /\ \/ ClassConnectWhenConnected(k)
     \/ ClassConnectThroughCommunicator(k)

Unhandled(k) ==
  {j \in DOMAIN instances[k].handlers :
     /\ j \notin instances[k].handled
     /\ connectPromises[instances[k].handlers[j]].outcome = "resolved"}

ClassConnectHandler(k, j) ==
  /\ k \in DOMAIN instances
  /\ j \in Unhandled(k)
  /\ \A i \in Unhandled(k) : j <= i
  /\ instances' = [instances EXCEPT
        ![k].connection = Instance(connectPromises[instances[k].handlers[j]].conn),
        ![k].initialized = IF instances[k].initialize THEN @ + 1 ELSE @,
        ![k].handled = @ \cup {j}]
  /\ result' = NoResult
  /\ UNCHANGED <<registryVars, connectVars, requestCalls, facadeVars, exposed>>

HandlersDrained == \A k \in DOMAIN instances : Unhandled(k) = {}

(***************************************************************************)
(* Initial state: one Adapter, one Connection using it and one Request     *)
(* bound to that Connection have been constructed; nothing is in flight.   *)
(***************************************************************************)
Init ==
  /\ adapters = [n \in {"XHR"} |-> [id |-> 1, caps |-> abstractMethods, name |-> n]]
  /\ connections = [n \in {"c1"} |->
       [id |-> 2, _state |-> DISCONNECTED, url |-> BaseUrl(n), adapter |-> "XHR", name |-> n]]
  /\ requests = [n \in {"r1"} |->
       ConstructedRequest(3,
         Options(n, "get", "/user/:id", ByName("c1"), Undefined, Undefined, FALSE))]
  /\ nextId = 4
  /\ listeners = [c \in ConnNames |-> [e \in {"connect", "connectionFail"} |-> <<>>]]
  /\ emitted = [c \in ConnNames |-> [e \in {"connect", "connectionFail"} |-> 0]]
  /\ connectCalls = <<>>
  /\ connectPromises = <<>>
  /\ disconnectCalls = <<>>
  /\ disconnectPromises = <<>>
  /\ requestCalls = <<>>
  /\ result = NoResult
  /\ config = [defaultAdapter |-> Undefined, defaultConnection |-> Undefined]
  /\ adapterCalls = <<>>
  /\ exposed = [c \in ConnNames |-> [on |-> "requests", map |-> <<>>]]
  /\ instances = <<>>

(***************************************************************************)
(* The inputs of the explored calls.                                       *)
(***************************************************************************)
DataValues == {[id |-> "7"], [id |-> "8"]}

\* the blueprint of the verb helpers, and a named hookless blueprint
VerbBlueprint(method, route) ==
  Options(Undefined, method, route, NoConnection, Undefined, Undefined, FALSE)

AdHoc(resolve, reject, upload) ==
  Options("adhoc", "get", "/user/:id", NoConnection, resolve, reject, upload)

ResolveHooks == {Undefined, "passResolve", "recover", "wrapReject"}

RejectHooks == {Undefined, "passReject", "recover", "wrapReject"}

StateMachineBlueprints == {AdHoc(Undefined, Undefined, FALSE), AdHoc(Undefined, Undefined, TRUE)}

InvalidBlueprints ==
  {Options("adhoc", "asd", "/ping", NoConnection, Undefined, Undefined, FALSE),
   Options("adhoc", Undefined, "/ping", NoConnection, Undefined, Undefined, FALSE),
   Options("adhoc", "get", Undefined, NoConnection, Undefined, Undefined, FALSE),
   Options("r1", "asd", "/ping", NoConnection, Undefined, Undefined, FALSE)}

DispatchBlueprints ==
  {VerbBlueprint("GET", "/ping")}
    \cup {AdHoc(h1, h2, u) : h1 \in ResolveHooks, h2 \in RejectHooks, u \in BOOLEAN}
    \cup InvalidBlueprints

Overrides == {NoConnection, [t |-> "null", v |-> ""], Instance("c1"), ByName("c1")}

ConstructorOptions ==
  {Options(n, m, r, c, h1, h2, FALSE) :
     n \in ReqNames \cup {Undefined}, m \in {"get", "asd", Undefined},
     r \in {"/user/:id", Undefined}, c \in {NoConnection, ByName("c1"), ByName("nope")},
     h1 \in {Undefined}, h2 \in {Undefined, "recover"}}

(***************************************************************************)
(* Spec: one Connection under every interleaving of connect(),             *)
(* disconnect(), request() and the settlements of the Adapter calls.       *)
(***************************************************************************)
Next ==
  \/ \E c \in ConnNames : Connect(c)
  \/ \E i \in DOMAIN connectCalls : ConnectSucceeds(i)
  \/ \E i \in DOMAIN connectCalls : ConnectFails(i)
  \/ \E c \in ConnNames : Disconnect(c)
  \/ \E i \in DOMAIN disconnectCalls : DisconnectSucceeds(i)
  \/ \E i \in DOMAIN disconnectCalls : DisconnectFails(i)
  \/ \E c \in ConnNames, b \in StateMachineBlueprints :
        Len(requestCalls) < MaxRequestCalls /\ Request(c, b, [id |-> "7"])
  \/ \E i \in DOMAIN requestCalls : RequestSucceeds(i, Raw("P1"))
  \/ \E i \in DOMAIN requestCalls : RequestFails(i, Raw("E1"))

Spec == Init /\ [][Next]_vars

(***************************************************************************)
(* SpecDispatch: the request pipeline over every blueprint shape.          *)
(***************************************************************************)
(***************************************************************************)
(* Connection#get, post, put and delete: request() with a blueprint made   *)
(* of the method and the route given.                                      *)
(***************************************************************************)
Verb(c, method, route, data) == Request(c, VerbBlueprint(method, route), data)

VerbRoutes == {"/ping", "/user/:id"}

NextDispatch ==
  \/ \E c \in ConnNames, b \in DispatchBlueprints, d \in DataValues :
        Len(requestCalls) < MaxDispatches /\ Request(c, b, d)
  \/ \E c \in ConnNames, m \in REQUEST_METHODS, route \in VerbRoutes, d \in DataValues :
        Len(requestCalls) < MaxDispatches /\ Verb(c, m, route, d)
  \/ \E r \in ReqNames, d \in DataValues, o \in Overrides :
        Len(requestCalls) < MaxDispatches /\ Execute(r, d, o)
  \/ \E i \in DOMAIN requestCalls, p \in Payloads \cup {UndefinedPayload} : RequestSucceeds(i, p)
  \/ \E i \in DOMAIN requestCalls, e \in Errors : RequestFails(i, e)

SpecDispatch == Init /\ [][NextDispatch]_vars

(***************************************************************************)
(* SpecRegistry: constructions of Requests.                                *)
(***************************************************************************)
NextRegistry ==
  \E o \in ConstructorOptions : NewRequest(o)

SpecRegistry == Init /\ [][NextRegistry]_vars

(***************************************************************************)
(* The inputs of the explored registrations.                               *)
(***************************************************************************)
AdapterInputs ==
  {AdapterOptions(n, abstractMethods) : n \in {"XHR", "WS", Undefined, "#42"}}

StaticAdapterInputs == {o \in AdapterInputs : TypeofString(o.name)}

ConnectionInputs ==
  {ConnectionOptions(n, a, u, ia, ir) :
     n \in {"c1", "c2", Undefined}, a \in {"XHR", "WS", Undefined},
     u \in {"http://h:2", Undefined},
     ia \in {<<>>, <<AdapterOptions("WS", abstractMethods)>>},
     ir \in {<<>>, <<"r9">>}}

RequestInputs ==
  LET named == {Options("r2", m, "/user/:id", c, Undefined, Undefined, FALSE) :
                  m \in {"get", "asd"}, c \in {ByName("c1"), ByName("c2"), Instance("c1")}}
  IN named \cup {WithoutShortName(o) : o \in named}

(***************************************************************************)
(* SpecComponents: registrations of Adapters, Connections and Requests,    *)
(* through the constructors and through the Communicator.                  *)
(***************************************************************************)
NextComponents ==
  \/ \E o \in AdapterInputs : NewAdapter(o)
  \/ \E o \in StaticAdapterInputs : AdapterRegister(o)
  \/ \E o \in AdapterInputs : registerAdapter(o)
  \/ \E o \in ConnectionInputs : NewConnection(o)
  \/ \E o \in ConnectionInputs : registerConnection(o)
  \/ \E o \in RequestInputs : NewRequest(o)

SpecComponents == Init /\ [][NextComponents]_vars

(***************************************************************************)
(* SpecExecute: Requests are constructed, bound or not to a Connection,    *)
(* and executed with and without an override.                              *)
(***************************************************************************)
ExecuteInputs ==
  {Options("r2", m, "/user/:id", c, Undefined, h, u) :
     m \in {"get", "post"}, c \in {NoConnection, ByName("c1"), Instance("c1")},
     h \in {Undefined, "recover"}, u \in BOOLEAN}

(***************************************************************************)
(* Several request()/upload() calls in flight on one Connection: every     *)
(* call is dispatched at once and the Adapter settles them in any order.   *)
(***************************************************************************)
ConcurrentBlueprints ==
  {AdHoc("passResolve", "passReject", u) : u \in BOOLEAN}

NextConcurrent ==
  \/ \E c \in ConnNames, b \in ConcurrentBlueprints, d \in DataValues :
        Len(requestCalls) < MaxConcurrentRequests /\ Request(c, b, d)
  \/ \E i \in DOMAIN requestCalls, p \in Payloads : RequestSucceeds(i, p)
  \/ \E i \in DOMAIN requestCalls, e \in Errors : RequestFails(i, e)

SpecConcurrent == Init /\ [][NextConcurrent]_vars

NextExecute ==
  \/ \E o \in ExecuteInputs : NewRequest(o)
  \/ \E r \in ReqNames, d \in DataValues, o \in Overrides : Execute(r, d, o)
  \/ \E c \in ConnNames, b \in StateMachineBlueprints, d \in DataValues :
        Len(requestCalls) < MaxDispatches /\ Request(c, b, d)

SpecExecute == Init /\ [][NextExecute]_vars

(***************************************************************************)
(* SpecAdapter: Adapters that implement all, all but one, or none of the   *)
(* capabilities, and calls of their operations.                            *)
(***************************************************************************)
CapabilitySets ==
  {abstractMethods, {}} \cup {abstractMethods \ {m} : m \in abstractMethods}

NextAdapter ==
  \/ \E c \in CapabilitySets : NewAdapter(AdapterOptions("WS", c))
  \/ \E a \in {"XHR", "WS"}, m \in abstractMethods : AdapterCall(a, m)
  \/ \E i \in DOMAIN adapterCalls : AdapterCallSucceeds(i, Raw("P1"))
  \/ \E i \in DOMAIN adapterCalls : AdapterCallFails(i, Raw("E1"))

SpecAdapter == Init /\ [][NextAdapter]_vars

(***************************************************************************)
(* connect() and disconnect() in any interleaving, where every             *)
(* Adapter.connect call is eventually settled by the Adapter.              *)
(***************************************************************************)
NextConnectivity ==
  \/ \E c \in ConnNames : Connect(c)
  \/ \E i \in DOMAIN connectCalls : ConnectSucceeds(i)
  \/ \E i \in DOMAIN connectCalls : ConnectFails(i)
  \/ \E c \in ConnNames : Disconnect(c)
  \/ \E i \in DOMAIN disconnectCalls : DisconnectSucceeds(i)
  \/ \E i \in DOMAIN disconnectCalls : DisconnectFails(i)

AdapterSettlesConnect(i) ==
  /\ i \in DOMAIN connectCalls
  /\ (ConnectSucceeds(i) \/ ConnectFails(i))

SpecConnectivity ==
  /\ Init
  /\ [][NextConnectivity]_vars
  /\ \A i \in 1..MaxConnectCalls : WF_vars(AdapterSettlesConnect(i))

(***************************************************************************)
(* connect() calls followed by disconnect(): no connect() is invoked once  *)
(* disconnect() has been called; the Adapter settles in any order.         *)
(***************************************************************************)
NextDisconnectLast ==
  \/ \E c \in ConnNames : disconnectCalls = <<>> /\ Connect(c)
  \/ \E i \in DOMAIN connectCalls : ConnectSucceeds(i)
  \/ \E i \in DOMAIN connectCalls : ConnectFails(i)
  \/ \E c \in ConnNames : Disconnect(c)
  \/ \E i \in DOMAIN disconnectCalls : DisconnectSucceeds(i)
  \/ \E i \in DOMAIN disconnectCalls : DisconnectFails(i)

SpecDisconnectLast == Init /\ [][NextDisconnectLast]_vars

(***************************************************************************)
(* subscribe and unsubscribe on a Connection, settled by the capability.   *)
(***************************************************************************)
Events == {"ev1", "ev2"}

Callbacks == {"cb1", "cb2"}

NextSubscribe ==
  \/ \E c \in ConnNames, e \in Events, cb \in Callbacks :
        Len(adapterCalls) < MaxSubscriptions /\ Subscribe(c, e, cb)
  \/ \E c \in ConnNames, e \in Events :
        Len(adapterCalls) < MaxSubscriptions /\ Unsubscribe(c, e)
  \/ \E i \in DOMAIN adapterCalls, p \in Payloads : AdapterCallSucceeds(i, p)
  \/ \E i \in DOMAIN adapterCalls, e \in Errors : AdapterCallFails(i, e)

SpecSubscribe == Init /\ [][NextSubscribe]_vars

(***************************************************************************)
(* SpecCommunicator: connect() and disconnect() of the Communicator, by    *)
(* name, by instance and by default, with the settlements of the Adapter.  *)
(***************************************************************************)
CommunicatorArguments ==
  {NoConnection, ByName("c1"), ByName("nope"), Instance("c1"), [t |-> "null", v |-> ""]}

FacadeConnections ==
  {ConnectionOptions(n, a, "http://h:1", <<>>, <<>>) : n \in {"c1", "nope"}, a \in {"WS"}}

NextCommunicator ==
  \/ \E o \in FacadeConnections : registerConnection(o)
  \/ \E a \in CommunicatorArguments : CommunicatorConnect(a)
  \/ \E a \in CommunicatorArguments : CommunicatorDisconnect(a)
  \/ \E i \in DOMAIN connectCalls : ConnectSucceeds(i)
  \/ \E i \in DOMAIN connectCalls : ConnectFails(i)
  \/ \E i \in DOMAIN disconnectCalls : DisconnectSucceeds(i)
  \/ \E i \in DOMAIN disconnectCalls : DisconnectFails(i)

SpecCommunicator == Init /\ [][NextCommunicator]_vars

(***************************************************************************)
(* registerRequest on a Connection and on ClassWithConnection instances.   *)
(***************************************************************************)
ClassNames == {"k1", "k2"}

ClassInputs ==
  {ClassOptions(c, key) : c \in {"c1", "nope", Undefined}, key \in {Undefined, "server"}}

ExposeInputs ==
  {Options("r2", "get", "/user/:id", ByName("c1"), Undefined, Undefined, FALSE),
   Options("r2", "asd", "/user/:id", ByName("c1"), Undefined, Undefined, FALSE),
   Options("r1", "post", "/ping", NoConnection, Undefined, Undefined, FALSE)}

PayloadArguments == {PayloadArgument(o) : o \in ExposeInputs}

InstanceArguments == {InstanceArgument(r) : r \in ReqNames}

NextExpose ==
  \/ \E k \in ClassNames, o \in ClassInputs : NewClassWithConnection(k, o, FALSE)
  \/ \E owner \in DOMAIN exposed, arg \in PayloadArguments : registerRequest(owner, arg)
  \/ \E owner \in DOMAIN exposed, arg \in InstanceArguments : registerRequest(owner, arg)

SpecExpose == Init /\ [][NextExpose]_vars

(***************************************************************************)
(* ClassWithConnection instances that implement initialize, connect()      *)
(* called on them again, and the Connection connected directly.  The       *)
(* then-handlers of a settled promise run before the next call or          *)
(* settlement.                                                             *)
(***************************************************************************)
NextClass ==
  \/ \E k \in ClassNames, o \in ClassInputs :
       HandlersDrained /\ NewClassWithConnection(k, o, TRUE)
  \/ \E k \in ClassNames : HandlersDrained /\ ClassConnect(k)
  \/ \E k \in ClassNames, j \in 1..MaxConnectCalls : ClassConnectHandler(k, j)
  \/ \E c \in ConnNames : HandlersDrained /\ Connect(c)
  \/ \E i \in DOMAIN connectCalls : HandlersDrained /\ ConnectSucceeds(i)
  \/ \E i \in DOMAIN connectCalls : HandlersDrained /\ ConnectFails(i)

SpecClass == Init /\ [][NextClass]_vars

(***************************************************************************)
(* Registration under bound and unbound names interleaved with connect,    *)
(* disconnect, request and execute on what is registered.                  *)
(***************************************************************************)
LifecycleAdapters ==
  {AdapterOptions("XHR", {}), AdapterOptions("WS", abstractMethods)}

LifecycleConnections ==
  {ConnectionOptions(n, "XHR", "http://h:2", <<>>, <<>>) : n \in {"c1", "c2"}}

LifecycleRequests ==
  {Options("r1", "post", "/ping", ByName("c1"), Undefined, Undefined, TRUE),
   Options("r2", "get", "/user/:id", ByName("c1"), Undefined, Undefined, FALSE)}

LifecycleOps ==
  Len(connectCalls) + Len(disconnectCalls) + Len(requestCalls) + (nextId - 4)

NextLifecycle ==
  \/ \E o \in LifecycleAdapters : LifecycleOps < MaxLifecycleOps /\ NewAdapter(o)
  \/ \E o \in LifecycleConnections : LifecycleOps < MaxLifecycleOps /\ NewConnection(o)
  \/ \E o \in LifecycleRequests : LifecycleOps < MaxLifecycleOps /\ NewRequest(o)
  \/ \E c \in DOMAIN connections : LifecycleOps < MaxLifecycleOps /\ Connect(c)
  \/ \E i \in DOMAIN connectCalls : ConnectSucceeds(i)
  \/ \E i \in DOMAIN connectCalls : ConnectFails(i)
  \/ \E c \in DOMAIN connections : LifecycleOps < MaxLifecycleOps /\ Disconnect(c)
  \/ \E i \in DOMAIN disconnectCalls : DisconnectSucceeds(i)
  \/ \E i \in DOMAIN disconnectCalls : DisconnectFails(i)
  \/ \E c \in DOMAIN connections :
        /\ LifecycleOps < MaxLifecycleOps
        /\ Request(c, AdHoc(Undefined, Undefined, FALSE), [id |-> "7"])
  \/ \E i \in DOMAIN requestCalls : RequestSucceeds(i, Raw("P1"))
  \/ \E i \in DOMAIN requestCalls : RequestFails(i, Raw("E1"))
  \/ \E r \in DOMAIN requests : Execute(r, [id |-> "7"], NoConnection)

SpecLifecycle == Init /\ [][NextLifecycle]_vars

(***************************************************************************)
(* Observations of a step, used by the properties below.                   *)
(***************************************************************************)
ConnectCalledOn(c) ==
  /\ Len(connectPromises') = Len(connectPromises) + 1
  /\ connectPromises'[Len(connectPromises')].conn = c

DisconnectCalledOn(c) ==
  /\ Len(disconnectPromises') = Len(disconnectPromises) + 1
  /\ disconnectPromises'[Len(disconnectPromises')].conn = c

ConnectInFlight(c) ==
  {i \in DOMAIN connectCalls : connectCalls[i].conn = c /\ connectCalls[i].status = "pending"}

ConnectSettles(i, how) ==
  /\ connectCalls[i].status = "pending"
  /\ connectCalls'[i].status = how

DisconnectSettles(i, how) ==
  /\ disconnectCalls[i].status = "pending"
  /\ disconnectCalls'[i].status = how

EstablishedBy(i) ==
  {k \in DOMAIN connectPromises :
     connectPromises[k].how = "established" /\ connectPromises[k].attempt = i}

(***************************************************************************)
(* C1: a connect() made while the state is CONNECTING makes no             *)
(* Adapter.connect call of its own (there are exactly as many adapter      *)
(* calls as establishing connect() calls), and its promise is pending,     *)
(* resolved or rejected exactly as the attempt it joined is pending,       *)
(* succeeded or failed.                                                    *)
(***************************************************************************)
C1_CoalescedConnectFollowsAttempt ==
  /\ Len(connectCalls) =
       Cardinality({k \in DOMAIN connectPromises : connectPromises[k].how = "established"})
  /\ \A k \in DOMAIN connectPromises :
       connectPromises[k].how = "joined" =>
         LET a == connectCalls[connectPromises[k].attempt] IN
         /\ a.status = "pending" => connectPromises[k].outcome = "pending"
         /\ a.status = "ok" => connectPromises[k].outcome = "resolved"
         /\ a.status = "fail" => connectPromises[k].outcome = "rejected"

(***************************************************************************)
(* C2: in every reachable state at most one Adapter.connect call of a      *)
(* Connection is unsettled.                                                *)
(***************************************************************************)
C2_AtMostOneConnectInFlight ==
  \A c \in DOMAIN connections : Cardinality(ConnectInFlight(c)) <= 1

(***************************************************************************)
(* C3: connect() on a Disconnected Connection with no attempt in flight    *)
(* sets the state to CONNECTING and makes exactly one, still pending,      *)
(* Adapter.connect call with the base URL; when an Adapter.connect call    *)
(* succeeds the state becomes CONNECTED, 'connect' is emitted exactly once *)
(* and the promise of the connect() that made the call is resolved.        *)
(***************************************************************************)
C3_ConnectFromDisconnected ==
  [][\A c \in DOMAIN connections :
       /\ (disconnected(c) /\ ConnectInFlight(c) = {} /\ ConnectCalledOn(c)) =>
            /\ connections'[c]._state = CONNECTING
            /\ connectCalls' = Append(connectCalls,
                 [conn |-> c, url |-> BaseUrl(c), status |-> "pending"])
            /\ connectPromises'[Len(connectPromises')].outcome = "pending"
       /\ \A i \in DOMAIN connectCalls :
            (connectCalls[i].conn = c /\ ConnectSettles(i, "ok")) =>
              /\ connections'[c]._state = CONNECTED
              /\ emitted'[c]["connect"] = emitted[c]["connect"] + 1
              /\ emitted'[c]["connectionFail"] = emitted[c]["connectionFail"]
              /\ EstablishedBy(i) # {}
              /\ \A k \in EstablishedBy(i) : connectPromises'[k].outcome = "resolved"
    ]_vars

C3_Witness ==
  /\ Len(connectCalls) = 1
  /\ connectCalls[1].status = "ok"
  /\ connectCalls[1].url = "http://h:1"
  /\ connected("c1")
  /\ emitted["c1"]["connect"] = 1
  /\ connectPromises[1].outcome = "resolved"
  /\ disconnectCalls = <<>>

C5_ConnectWhenConnected ==
  [][\A c \in DOMAIN connections :
       (connected(c) /\ ConnectCalledOn(c)) =>
          /\ connectPromises'[Len(connectPromises')].outcome = "resolved"
          /\ connectCalls' = connectCalls
          /\ connections' = connections
          /\ emitted' = emitted
    ]_vars

C5_Witness ==
  /\ connected("c1")
  /\ Len(connectCalls) = 1
  /\ Len(connectPromises) = 2
  /\ connectPromises[2].how = "immediate"
  /\ connectPromises[2].outcome = "resolved"

(***************************************************************************)
(* C6 as stated: disconnect() in any state makes exactly one               *)
(* Adapter.disconnect call, and when that call settles, whether it         *)
(* succeeds or fails, the state is DISCONNECTED.                           *)
(***************************************************************************)
C6_DisconnectedOnAnySettlement ==
  [][\A c \in DOMAIN connections :
       /\ DisconnectCalledOn(c) =>
            Len(disconnectCalls') = Len(disconnectCalls) + 1
       /\ \A i \in DOMAIN disconnectCalls :
            (disconnectCalls[i].conn = c /\ disconnectCalls[i].status = "pending"
               /\ disconnectCalls'[i].status # "pending") =>
              connections'[c]._state = DISCONNECTED
    ]_vars

(***************************************************************************)
(* C6 amended: disconnect() in any state makes exactly one, pending,       *)
(* Adapter.disconnect call and leaves the state as it is; when the call    *)
(* succeeds the state is DISCONNECTED and the promise is resolved; when    *)
(* it fails the state is left as it was and the promise is rejected.       *)
(***************************************************************************)
C6_DisconnectedOnSuccess ==
  [][\A c \in DOMAIN connections :
       /\ DisconnectCalledOn(c) =>
            /\ disconnectCalls' = Append(disconnectCalls,
                 [conn |-> c, url |-> Undefined, status |-> "pending"])
            /\ connections' = connections
       /\ \A i \in DOMAIN disconnectCalls :
            /\ (disconnectCalls[i].conn = c /\ DisconnectSettles(i, "ok")) =>
                 /\ connections'[c]._state = DISCONNECTED
                 /\ \A k \in DOMAIN disconnectPromises :
                      disconnectPromises[k].call = i => disconnectPromises'[k].outcome = "resolved"
            /\ (disconnectCalls[i].conn = c /\ DisconnectSettles(i, "fail")) =>
                 /\ connections' = connections
                 /\ \A k \in DOMAIN disconnectPromises :
                      disconnectPromises[k].call = i => disconnectPromises'[k].outcome = "rejected"
    ]_vars

C6_Witness ==
  /\ Len(disconnectCalls) = 1
  /\ disconnectCalls[1].status = "fail"
  /\ disconnectPromises[1].outcome = "rejected"
  /\ Len(connectCalls) = 1
  /\ connectCalls[1].status = "ok"
  /\ connected("c1")

(***************************************************************************)
(* C7: in every state of a Connection a valid blueprint, with or without   *)
(* the upload flag, can be dispatched at once; the dispatch and the        *)
(* settlement of a request change neither the state of any Connection nor  *)
(* the Adapter.connect calls and connect() promises.                       *)
(***************************************************************************)
C7_RequestIgnoresState ==
  /\ [](\A c \in DOMAIN connections, u \in BOOLEAN :
          ENABLED RequestDispatches(c, AdHoc(Undefined, Undefined, u), [id |-> "7"]))
  /\ [][(requestCalls' # requestCalls) =>
          /\ connections' = connections
          /\ connectCalls' = connectCalls
          /\ connectPromises' = connectPromises
       ]_vars

C7_Witness ==
  /\ connectCalls = <<>>
  /\ disconnectCalls = <<>>
  /\ disconnected("c1")
  /\ Len(requestCalls) = 1
  /\ requestCalls[1].status = "ok"
  /\ requestCalls[1].via = "upload"
  /\ requestCalls[1].outcome = Resolved(Raw("P1"))

(***************************************************************************)
(* C8: for a blueprint without resolve and reject hooks the caller's       *)
(* promise is resolved with the Adapter's payload when the Adapter call    *)
(* succeeded and rejected with the Adapter's error when it failed.         *)
(***************************************************************************)
C8_HooklessPassThrough ==
  \A i \in DOMAIN requestCalls :
    LET q == requestCalls[i] IN
    (~typeofFunction(q.wire.request.resolve) /\ ~typeofFunction(q.wire.request.reject)) =>
      /\ q.status = "ok" => q.outcome = Resolved(q.settled)
      /\ q.status = "fail" => q.outcome = Rejected(q.settled)

ConnectionMissingErrors ==
  {"ConnectionMissingPropertyException: no name provided",
   "ConnectionMissingPropertyException: no adapter provided",
   "ConnectionMissingPropertyException: no url provided"}

IsTypeError(e) == e = "TypeError: Cannot read property 'name' of undefined"

AdapterRegistration(o) == NewAdapter(o) \/ AdapterRegister(o) \/ registerAdapter(o)

ConnectionRegistration(o) == NewConnection(o) \/ registerConnection(o)

(***************************************************************************)
(* C11: a registration of an Adapter, by the constructor, by               *)
(* Adapter.register or by the Communicator, under a name that is bound in  *)
(* the adapter registry throws and leaves the adapter registry unchanged.  *)
(***************************************************************************)
C11_DuplicateAdapterRefused ==
  [][\A o \in AdapterInputs :
       (o.name \in DOMAIN adapters /\ AdapterRegistration(o)) =>
          /\ result'.kind = "thrown"
          /\ adapters' = adapters
    ]_vars

C13_FailedRegistrationChangesNothing ==
  [][(nextId' # nextId /\ result'.kind = "thrown" /\ ~IsTypeError(result'.error)) =>
        /\ adapters' = adapters
        /\ connections' = connections
        /\ requests' = requests
    ]_vars

(***************************************************************************)
(* C14: when a Connection payload is refused by validation and lacks one   *)
(* of its required attributes name, adapter and url, the error is of the   *)
(* MissingProperty kind, also when the adapter it names is not registered. *)
(***************************************************************************)
C14_MissingBeforeInvalid ==
  [][\A o \in ConnectionInputs :
       (NewConnection(o) /\ result'.kind = "thrown" /\ ~IsTypeError(result'.error)
          /\ (Nullish(o.name) \/ Nullish(o.adapter) \/ Nullish(o.url))) =>
          result'.error \in ConnectionMissingErrors
    ]_vars

(***************************************************************************)
(* C15: execute() without an override on a Request that is not bound to a  *)
(* Connection throws the "no Connection provided" error at once; no        *)
(* Adapter call is made and nothing else changes.                          *)
(***************************************************************************)
C15_ExecuteWithoutConnectionThrows ==
  [][\A r \in DOMAIN requests, d \in DataValues :
       (requests[r].connection.t # "Connection" /\ Execute(r, d, NoConnection)) =>
          /\ result' = Thrown("no Connection provided", AsBlueprint(r))
          /\ requestCalls' = requestCalls
          /\ UNCHANGED <<connectCalls, disconnectCalls, adapterCalls, registryVars>>
    ]_vars

C15_Witness ==
  /\ "r2" \in DOMAIN requests
  /\ requests["r2"].options.connection = NoConnection
  /\ requests["r2"].connection = NoConnection
  /\ result.kind = "thrown"
  /\ result.error = "no Connection provided"
  /\ result.arg.ref = requests["r2"].id
  /\ requestCalls = <<>>

(***************************************************************************)
(* C16: execute(data, override) makes exactly one dispatch, through the    *)
(* override when the override is a Connection and through the bound        *)
(* Connection of the Request otherwise, and throws only when neither is a  *)
(* Connection.                                                             *)
(***************************************************************************)
C16_ExecuteResolvesConnection ==
  [][\A r \in DOMAIN requests, d \in DataValues, o \in Overrides :
       Execute(r, d, o) =>
          LET target == IF o.t = "Connection" THEN o ELSE requests[r].connection IN
          IF target.t = "Connection"
            THEN /\ Len(requestCalls') = Len(requestCalls) + 1
                 /\ requestCalls'[Len(requestCalls')].conn = target.v
                 /\ result'.kind # "thrown"
            ELSE /\ result'.kind = "thrown"
                 /\ requestCalls' = requestCalls
    ]_vars

(***************************************************************************)
(* C17: a call of an operation whose capability the Adapter's payload      *)
(* omitted does not throw and is resolved without a payload, never pending *)
(* towards a failure and never rejected; a call of a supplied capability   *)
(* is settled as the implementation settles it.                            *)
(***************************************************************************)
C17_OmittedCapabilityResolves ==
  /\ [](\A i \in DOMAIN adapterCalls :
          LET q == adapterCalls[i] IN
          IF q.method \notin adapters[q.adapter].caps
            THEN /\ q.status = "ok"
                 /\ q.outcome = Resolved(UndefinedPayload)
            ELSE /\ q.status = "pending" => q.outcome = Pending
                 /\ q.status = "ok" => q.outcome = Resolved(q.settled)
                 /\ q.status = "fail" => q.outcome = Rejected(q.settled))
  /\ [][Len(adapterCalls') > Len(adapterCalls) => result'.kind # "thrown"]_vars

C17_Witness ==
  /\ "WS" \in DOMAIN adapters
  /\ adapters["WS"].caps = abstractMethods \ {"subscribe"}
  /\ Len(adapterCalls) = 1
  /\ adapterCalls[1].adapter = "WS"
  /\ adapterCalls[1].method = "subscribe"
  /\ adapterCalls[1].outcome = Resolved(UndefinedPayload)

(***************************************************************************)
(* C18: the object handed to the Adapter has the url made of the base URL  *)
(* of the Connection and the route of the blueprint filled from the data,  *)
(* and a method that is one of the upper-case keywords.                    *)
(***************************************************************************)
C18_WireObject ==
  \A i \in DOMAIN requestCalls :
    LET q == requestCalls[i] IN
    /\ q.wire.url = concatenateBaseUrlAndUrl(BaseUrl(q.conn),
                      fillRouteWithPathVariables(q.wire.request.route, q.wire.data))
    /\ q.wire.method \in REQUEST_METHODS

(***************************************************************************)
(* C20: Communicator#connect and Communicator#disconnect with a name that  *)
(* is not bound in the connection registry, or without an argument when    *)
(* the default connection is unset or not bound, throw; no Adapter call is *)
(* made, no promise is created and no Connection changes.                  *)
(***************************************************************************)
Unresolvable(arg) ==
  \/ arg.t = "string" /\ arg.v \notin DOMAIN connections
  \/ /\ arg.t = "undefined"
     /\ \/ ~TypeofString(config.defaultConnection)
        \/ config.defaultConnection \notin DOMAIN connections

C20_UnresolvableNameThrows ==
  [][\A a \in CommunicatorArguments :
       (Unresolvable(a) /\ (CommunicatorConnect(a) \/ CommunicatorDisconnect(a))) =>
          /\ result'.kind = "thrown"
          /\ result'.arg = a
          /\ UNCHANGED <<connections, connectCalls, connectPromises, disconnectCalls,
                         disconnectPromises, adapterCalls, requestCalls, listeners>>
    ]_vars

C20_Witness ==
  /\ result.kind = "thrown"
  /\ result.arg = NoConnection
  /\ config.defaultConnection = "nope"
  /\ "nope" \notin DOMAIN connections
  /\ connecting("c1")
  /\ Len(connectCalls) = 1
  /\ disconnectCalls = <<>>

(***************************************************************************)
(* C21: the default connection, once set, names a Connection present in    *)
(* the connection registry, and the default adapter names an Adapter       *)
(* present in the adapter registry, whatever registerConnection and        *)
(* registerAdapter calls, successful or failing, were made.                *)
(***************************************************************************)
C21_DefaultNamesRegistered ==
  /\ Truthy(config.defaultConnection) => config.defaultConnection \in DOMAIN connections
  /\ Truthy(config.defaultAdapter) => config.defaultAdapter \in DOMAIN adapters

(***************************************************************************)
(* C22: a dispatch makes exactly one Adapter call, Adapter.upload when the *)
(* blueprint carries the upload flag and Adapter.request when it does not; *)
(* for a plain blueprint passed to Connection#request and for a registered *)
(* Request that is bound to a Connection and run through execute.          *)
(***************************************************************************)
DispatchedOnceVia(upload) ==
  /\ Len(requestCalls') = Len(requestCalls) + 1
  /\ SubSeq(requestCalls', 1, Len(requestCalls)) = requestCalls
  /\ requestCalls'[Len(requestCalls')].via = IF upload THEN "upload" ELSE "request"

C22_UploadFlagSelectsAdapterCall ==
  [][/\ \A c \in ConnNames, b \in StateMachineBlueprints, d \in DataValues :
          Request(c, b, d) => DispatchedOnceVia(b.upload)
     /\ \A r \in DOMAIN requests, d \in DataValues :
          (requests[r].connection.t = "Connection" /\ Execute(r, d, NoConnection))
             => DispatchedOnceVia(requests[r].options.upload)
    ]_vars

(***************************************************************************)
(* C23: every request()/upload() call issued on a Connection, also while   *)
(* earlier calls are pending, adds one Adapter call of its own and touches *)
(* no other; a completion of an Adapter call settles the promise of that   *)
(* call only; and each promise is pending as long as its own Adapter call  *)
(* is, resolved with the payload of its own call and rejected with the     *)
(* error of its own call, whatever the order of completion.                *)
(***************************************************************************)
SettlesWithOwnOutcome(i) ==
  CASE requestCalls[i].status = "pending" -> requestCalls[i].outcome = Pending
    [] requestCalls[i].status = "ok" ->
         requestCalls[i].outcome = Resolved(requestCalls[i].settled)
    [] requestCalls[i].status = "fail" ->
         requestCalls[i].outcome = Rejected(requestCalls[i].settled)

OneCallAdded ==
  /\ Len(requestCalls') = Len(requestCalls) + 1
  /\ SubSeq(requestCalls', 1, Len(requestCalls)) = requestCalls
  /\ requestCalls'[Len(requestCalls')].status = "pending"

OneCallSettled ==
  /\ Len(requestCalls') = Len(requestCalls)
  /\ \E i \in DOMAIN requestCalls :
       /\ requestCalls[i].status = "pending"
       /\ requestCalls'[i].status \in {"ok", "fail"}
       /\ requestCalls'[i].wire = requestCalls[i].wire
       /\ \A j \in DOMAIN requestCalls \ {i} : requestCalls'[j] = requestCalls[j]

ValidMethodAndRoute(b) ==
  /\ TypeofString(b.method)
  /\ toUpperCase(b.method) \in REQUEST_METHODS
  /\ TypeofString(b.route)

C24_BlueprintValidation ==
  [][\A c \in ConnNames, b \in DispatchBlueprints, d \in DataValues :
       Request(c, b, d) =>
         IF ValidMethodAndRoute(b)
           THEN /\ result'.kind # "thrown"
                /\ Len(requestCalls') = Len(requestCalls) + 1
           ELSE /\ result'.kind = "thrown"
                /\ requestCalls' = requestCalls
    ]_vars

(***************************************************************************)
(* C25: constructing a Connection under a name that is bound in the        *)
(* connection registry returns the instance registered under that name and *)
(* leaves the connection registry, and so the adapter, base URL and state  *)
(* of that instance, as they were.                                         *)
(***************************************************************************)
C25_ConstructionUnderBoundNameReturnsExisting ==
  [][\A o \in ConnectionInputs :
       (o.name \in DOMAIN connections /\ NewConnection(o)) =>
          /\ result' = Returned(connections[o.name].id, o)
          /\ connections' = connections
    ]_vars

(***************************************************************************)
(* C26: registering a Request whose payload lacks shortName, with a name   *)
(* that is not registered and every other attribute valid, throws and adds *)
(* nothing to the request registry.                                        *)
(***************************************************************************)
ValidButForShortName(o) ==
  /\ ~TypeofString(o.shortName)
  /\ TypeofString(o.name)
  /\ o.name \notin DOMAIN requests
  /\ ValidMethodAndRoute(o)
  /\ validateConnection(o) = ""

C26_ShortNameRequired ==
  [][\A o \in RequestInputs :
       (ValidButForShortName(o) /\ NewRequest(o)) =>
          /\ result'.kind = "thrown"
          /\ requests' = requests
    ]_vars

(***************************************************************************)
(* C27: a Request registered with a Connection instance as its connection  *)
(* is bound to that Connection, and execute(data) without an override      *)
(* makes exactly one dispatch, through that Connection.                    *)
(***************************************************************************)
C27_InstanceBindsLikeName ==
  /\ [](\A r \in DOMAIN requests :
          requests[r].options.connection.t = "Connection"
             => requests[r].connection = requests[r].options.connection)
  /\ [][\A r \in DOMAIN requests, d \in DataValues :
          (requests[r].options.connection.t = "Connection" /\ Execute(r, d, NoConnection))
             => /\ Len(requestCalls') = Len(requestCalls) + 1
                /\ requestCalls'[Len(requestCalls')].conn = requests[r].options.connection.v
       ]_vars

(***************************************************************************)
(* C28: the state of a Connection changes only from Disconnected to        *)
(* Connecting, from Connecting to Connected, from Connecting to            *)
(* Disconnected and from Connected to Disconnected; a Connection that      *)
(* enters the registry enters it Disconnected.                             *)
(***************************************************************************)
AllowedTransitions ==
  {<<DISCONNECTED, CONNECTING>>, <<CONNECTING, CONNECTED>>,
   <<CONNECTING, DISCONNECTED>>, <<CONNECTED, DISCONNECTED>>}

C28_StateMachineTransitions ==
  [][\A c \in DOMAIN connections' :
       IF c \in DOMAIN connections
         THEN state(c)' # state(c) => <<state(c), state(c)'>> \in AllowedTransitions
         ELSE state(c)' = DISCONNECTED
    ]_vars

(***************************************************************************)
(* C29: every registered Connection has an Adapter that is in the adapter  *)
(* registry, and every registered Request whose payload gave a connection  *)
(* is bound to a Connection that is in the connection registry.            *)
(***************************************************************************)
C29_ReferencesResolve ==
  /\ \A c \in DOMAIN connections : connections[c].adapter \in DOMAIN adapters
  /\ \A r \in DOMAIN requests :
       requests[r].options.connection # NoConnection
          => /\ requests[r].connection.t = "Connection"
             /\ requests[r].connection.v \in DOMAIN connections

(***************************************************************************)
(* C30: a name bound in the adapter, connection or request registry stays  *)
(* bound to the same instance across every step: no step removes an entry, *)
(* none replaces one, and the only field of an entry that changes is the   *)
(* state of a Connection.                                                  *)
(***************************************************************************)
ButForState(connection) == [connection EXCEPT !._state = DISCONNECTED]

C30_BindingsArePermanent ==
  [][/\ \A n \in DOMAIN adapters :
          n \in DOMAIN adapters' /\ adapters'[n] = adapters[n]
     /\ \A n \in DOMAIN connections :
          /\ n \in DOMAIN connections'
          /\ ButForState(connections'[n]) = ButForState(connections[n])
     /\ \A n \in DOMAIN requests :
          n \in DOMAIN requests' /\ requests'[n] = requests[n]
    ]_vars

C30_Witness ==
  /\ Len(connectCalls) = 1
  /\ connectCalls[1].status = "ok"
  /\ Len(disconnectCalls) = 1
  /\ disconnectCalls[1].status = "ok"
  /\ disconnected("c1")
  /\ Len(requestCalls) = 1
  /\ nextId = 5
  /\ DOMAIN connections = {"c1"}
  /\ result = Returned(2, ConnectionOptions("c1", "XHR", "http://h:2", <<>>, <<>>))
  /\ connections["c1"] = [id |-> 2, name |-> "c1", adapter |-> "XHR", url |-> "http://h:1",
                          _state |-> DISCONNECTED]

(***************************************************************************)
(* C31: registerRequest of a Connection or a ClassWithConnection, given a  *)
(* valid request payload or a registered Request instance, returns the     *)
(* execute function of that Request, stores the same function on the owner *)
(* under the shortName of the Request, and the function carries the        *)
(* Request as _request.                                                    *)
(***************************************************************************)
Registrable(arg) ==
  IF arg.t = "Request" THEN arg.v \in DOMAIN requests
  ELSE validateImplementation(arg.v) = ""

RegisteredAs(arg) ==
  IF arg.t = "Request" THEN requests[arg.v] ELSE requests'[arg.v.name]

ExposesExecute(owner, arg) ==
  (Registrable(arg) /\ registerRequest(owner, arg)) =>
     /\ result' = Returned(RegisteredAs(arg).id, ExecuteOf(RegisteredAs(arg).id))
     /\ RegisteredAs(arg).options.shortName \in DOMAIN exposed'[owner].map
     /\ exposed'[owner].map[RegisteredAs(arg).options.shortName] = result'.arg
     /\ result'.arg._request = RegisteredAs(arg).id

C31_RegisterRequestExposesExecute ==
  [][/\ \A owner \in DOMAIN exposed, arg \in PayloadArguments : ExposesExecute(owner, arg)
     /\ \A owner \in DOMAIN exposed, arg \in InstanceArguments : ExposesExecute(owner, arg)
    ]_vars

(***************************************************************************)
(* C32: when the Adapter call succeeded with P and the blueprint has a     *)
(* resolve hook, the caller's outcome is the outcome of the hook applied   *)
(* to P itself: resolved with P for Request#resolve, resolved with the     *)
(* hook's value for a hook that transforms, rejected with the hook's value *)
(* for a hook that rejects; never the raw P in place of the hook's value.  *)
(***************************************************************************)
C32_ResolveHookDecides ==
  \A i \in DOMAIN requestCalls :
    LET q == requestCalls[i] IN
    q.status = "ok" =>
      /\ q.wire.request.resolve = "passResolve" =>
           q.outcome = [kind |-> "resolved", value |-> q.settled]
      /\ q.wire.request.resolve = "recover" =>
           q.outcome = [kind |-> "resolved", value |-> [tag |-> "recovered", v |-> q.settled.v]]
      /\ q.wire.request.resolve = "wrapReject" =>
           q.outcome = [kind |-> "rejected", value |-> [tag |-> "wrapped", v |-> q.settled.v]]

C32_Witness ==
  \E i \in DOMAIN requestCalls :
    /\ requestCalls[i].status = "ok"
    /\ requestCalls[i].settled = Raw("P1")
    /\ requestCalls[i].wire.request.resolve = "wrapReject"
    /\ requestCalls[i].outcome = Rejected([tag |-> "wrapped", v |-> "P1"])

(***************************************************************************)
(* C38: no hook of a dispatch is invoked while its Adapter call is         *)
(* pending; once the call has succeeded the resolve hook of the blueprint  *)
(* has been invoked once and the reject hook not at all, also when the     *)
(* resolve hook itself failed; once the call has failed the reject hook    *)
(* has been invoked once and the resolve hook not at all.  A hook the      *)
(* blueprint does not define is not invoked.                               *)
(***************************************************************************)
HooksInvoked(request, hook) ==
  IF typeofFunction(request[hook]) THEN <<hook>> ELSE <<>>

C38_OneHookOnce ==
  \A i \in DOMAIN requestCalls :
    LET q == requestCalls[i] IN
    /\ q.status = "pending" => q.invoked = <<>>
    /\ q.status = "ok" => q.invoked = HooksInvoked(q.wire.request, "resolve")
    /\ q.status = "fail" => q.invoked = HooksInvoked(q.wire.request, "reject")

C38_Witness ==
  \E i \in DOMAIN requestCalls :
    /\ requestCalls[i].status = "ok"
    /\ requestCalls[i].wire.request.resolve = "wrapReject"
    /\ requestCalls[i].wire.request.reject = "recover"
    /\ requestCalls[i].outcome.kind = "rejected"
    /\ requestCalls[i].invoked = <<"resolve">>

(***************************************************************************)
(* C33: Connection#get, post, put and delete with a string route do not    *)
(* throw and each make exactly one Adapter.request call, whose method is   *)
(* GET, POST, PUT and DELETE respectively.                                 *)
(***************************************************************************)
C33_VerbHelpersDispatch ==
  [][\A c \in ConnNames, m \in REQUEST_METHODS, route \in VerbRoutes, d \in DataValues :
       Verb(c, m, route, d) =>
          /\ result'.kind # "thrown"
          /\ Len(requestCalls') = Len(requestCalls) + 1
          /\ requestCalls'[Len(requestCalls')].via = "request"
          /\ requestCalls'[Len(requestCalls')].wire.method = m
    ]_vars

(***************************************************************************)
(* C34: Connection#subscribe(event, cb) calls the subscribe capability of  *)
(* the Connection's Adapter with the event and the callback, and           *)
(* Connection#unsubscribe(event) calls the unsubscribe capability with the *)
(* event; the promise returned is settled as the capability settles it.    *)
(***************************************************************************)
LastAdapterCall == adapterCalls'[Len(adapterCalls')]

C34_SubscribePassThrough ==
  /\ [](\A i \in DOMAIN adapterCalls :
          LET q == adapterCalls[i] IN
          /\ q.status = "pending" => q.outcome = Pending
          /\ q.status = "ok" => q.outcome = Resolved(q.settled)
          /\ q.status = "fail" => q.outcome = Rejected(q.settled))
  /\ [][/\ \A c \in ConnNames, e \in Events, cb \in Callbacks :
             Subscribe(c, e, cb) =>
                /\ Len(adapterCalls') = Len(adapterCalls) + 1
                /\ LastAdapterCall.method = "subscribe"
                /\ LastAdapterCall.args = <<e, cb>>
        /\ \A c \in ConnNames, e \in Events :
             Unsubscribe(c, e) =>
                /\ Len(adapterCalls') = Len(adapterCalls) + 1
                /\ LastAdapterCall.method = "unsubscribe"
                /\ LastAdapterCall.args = <<e>>
       ]_vars

(***************************************************************************)
(* C35: in a run where no connect() is invoked once disconnect() has been  *)
(* called, a Connection whose latest disconnect() has settled successfully *)
(* is Disconnected, whatever connect attempts that were in flight have     *)
(* settled since.                                                          *)
(***************************************************************************)
LastOf(S) == CHOOSE i \in S : \A j \in S : j <= i

DisconnectsOf(c) == {i \in DOMAIN disconnectCalls : disconnectCalls[i].conn = c}

C35_StaysDisconnected ==
  \A c \in DOMAIN connections :
    (/\ DisconnectsOf(c) # {}
     /\ disconnectCalls[LastOf(DisconnectsOf(c))].status = "ok")
       => disconnected(c)

(***************************************************************************)
(* C36: when every Adapter.connect call is eventually settled, every       *)
(* promise returned by connect(), the one that started an attempt as well  *)
(* as those that joined an attempt in progress, is eventually settled,     *)
(* whatever disconnect() and connect() calls are interleaved.              *)
(***************************************************************************)
ConnectPromiseSettled(k) ==
  /\ k \in DOMAIN connectPromises
  /\ connectPromises[k].outcome # "pending"

C36_ConnectPromisesSettle ==
  \A k \in 1..MaxConnectCalls :
    (k \in DOMAIN connectPromises) ~> ConnectPromiseSettled(k)

C36_Witness ==
  /\ Len(connectPromises) = 3
  /\ connectPromises[1].how = "established"
  /\ connectPromises[2].how = "joined"
  /\ connectPromises[3].how = "joined"
  /\ \A k \in 1..3 : connectPromises[k].outcome = "rejected"
  /\ Len(disconnectCalls) = 1

(***************************************************************************)
(* C37: a listener that a coalesced connect() registered on 'connect' or   *)
(* 'connectionFail' is registered only as long as its promise is pending:  *)
(* once the attempt has settled the Connection holds no listener for it.   *)
(***************************************************************************)
C37_ListenersRemovedOnSettlement ==
  \A c \in DOMAIN connections, e \in {"connect", "connectionFail"} :
    \A k \in ListeningOn(c, e) : connectPromises[k].outcome = "pending"

(***************************************************************************)
(* C39: an instance of ClassWithConnection that implements initialize has  *)
(* initialize invoked at most once while its Connection connects once (no  *)
(* disconnect() happens), also when connect() is called on the instance    *)
(* again while the constructor's connect is in flight or when the          *)
(* Connection was already Connected; connection is set on the instance     *)
(* when initialize has run, and initialize has run once every handler of   *)
(* a resolved connect has run.                                             *)
(***************************************************************************)
C39_InitializeExactlyOnce ==
  \A k \in DOMAIN instances :
    /\ instances[k].initialized <= 1
    /\ instances[k].initialized > 0 =>
         instances[k].connection = Instance(instances[k].options.connection)
    /\ (instances[k].handled # {} /\ Unhandled(k) = {}) => instances[k].initialized = 1

====
